---- MODULE Spec2Model ----
(***************************************************************************)
(* MFlux flux reconciliation (libflux.py): predict = special-species guard,*)
(* regression, quadprog_adjust (constraint construction and the cvxopt QP) *)
(* and rule_adjust.                                                        *)
(*                                                                         *)
(* Numbers.  Substrate ratios are floats in the source; here a ratio is a  *)
(* whole number of quarters (RatioDen = 4: 1 is 0.25, 2 is 0.5, 4 is 1.0), *)
(* which floats represent and add exactly.  Fluxes, bounds and right-hand  *)
(* sides are whole flux units.  A numpy array with 0-based index i is a    *)
(* TLA+ sequence with index i+1.  A dict is a function (Substrates,        *)
(* Fluxes) or, where its iteration order matters (Boundary_dict), the      *)
(* sequence of its items in insertion order.                               *)
(***************************************************************************)
EXTENDS Integers, Sequences, FiniteSets, TLC

VARIABLES
    pc,             \* position in the request: see the actions below
    Vector,         \* the feature vector; only Vector[0], the species, is read here
    Substrates,     \* substrate index -> ratio (in quarters)
    Boundary_dict,  \* items of the boundary dict, in insertion order
    Label_scalers,  \* flux index -> scale_, or None
    Fluxes,         \* flux index -> value predicted by the regressors
    Aineq_bound,    \* locals of quadprog_adjust ...
    Bineq_bound,
    Aineq,
    bineq,
    Aeq,
    beq,
    P,
    q,
    Solv,           \* what cvxopt.solvers.qp returned: [status, x]
    built,          \* the locals of quadprog_adjust assigned so far
    Influxes,       \* predict's Influxes after quadprog_adjust / rule_adjust
    result,         \* what predict returned
    error,          \* the exception that ended the request, "" when none
    stdout,         \* lines printed so far
    request         \* the submitted form fields read by process_boundaries

vars == << pc, Vector, Substrates, Boundary_dict, Label_scalers, Fluxes,
           Aineq_bound, Bineq_bound, Aineq, bineq, Aeq, beq, P, q, Solv,
           built, Influxes, result, error, stdout, request >>

\* Python's None: the empty tuple, which no array, dict or record of the model equals
None == << >>

----------------------------------------------------------------------------
(* Program constants *)

NumFluxes == 29
NumSubstrates == 14
NumIneq == 12
NumEq == 10
RatioDen == 4
SpecialSpeciesAbove == 200

FluxIds == 1..NumFluxes
SubstrateIds == 1..NumSubstrates

Substrate2Index ==
    [glucose |-> 1, galactose |-> 3, fructose |-> 2, gluconate |-> 4,
     glutamate |-> 5, citrate |-> 6, xylose |-> 7, succinate |-> 8,
     malate |-> 9, lactate |-> 10, pyruvate |-> 11, glycerol |-> 12,
     acetate |-> 13]

\* 100 * ratio, in flux units (the ratio is r / RatioDen)
Times100(r) == (100 * r) \div RatioDen

\* faulty variant: the threshold taken strictly
AtLeastHalf_strict(r) == 2 * r > RatioDen

\* the test "ratio sum >= 0.5"
AtLeastHalf(r) == 2 * r >= RatioDen

----------------------------------------------------------------------------
(* numpy helpers *)

\* numpy.zeros((rows, cols)): 0-based rows and columns
zeros2(rows, cols) == [i \in 0..(rows - 1) |-> [j \in 0..(cols - 1) |-> 0]]

\* numpy.zeros(n), as a sequence
zeros(n) == [j \in 1..n |-> 0]

\* the assignments M[i,j] = v of a sequence of <<i, j, v>>, in order
RECURSIVE Assign(_, _)
Assign(M, es) ==
    IF es = << >> THEN M
    ELSE Assign([M EXCEPT ![es[1][1]][es[1][2]] = es[1][3]], Tail(es))

\* M[1:, 1:] of a 0-based rows x cols array: a sequence of rows, each a sequence
Slice1(M, rows, cols) ==
    [i \in 1..(rows - 1) |-> [j \in 1..(cols - 1) |-> M[i][j]]]

\* -1 * M
Negate(M) == [i \in DOMAIN M |-> [j \in DOMAIN M[i] |-> (-1) * M[i][j]]]

\* numpy.eye(n) and numpy.diag(d)
eye(n) == [i \in 1..n |-> [j \in 1..n |-> IF i = j THEN 1 ELSE 0]]
diag(d) == [i \in DOMAIN d |-> [j \in DOMAIN d |-> IF i = j THEN d[i] ELSE 0]]
square(M) == [i \in DOMAIN M |-> [j \in DOMAIN M[i] |-> M[i][j] * M[i][j]]]

RECURSIVE SumTo(_, _)
SumTo(f, n) == IF n = 0 THEN 0 ELSE f[n] + SumTo(f, n - 1)

\* row[1] * x[1] + ... + row[n] * x[n]
RECURSIVE DotTo(_, _, _)
DotTo(row, x, n) ==
    IF n = 0 THEN 0
    ELSE (IF row[n] = 0 THEN 0 ELSE row[n] * x[n]) + DotTo(row, x, n - 1)

\* row . x over the 29 fluxes
Dot(row, x) == DotTo(row, x, NumFluxes)

----------------------------------------------------------------------------
(* populate_boundary_inequalities *)

\* a key of Boundary_dict is a string, here the sequence of its characters
Digits == <<"0", "1", "2", "3", "4", "5", "6", "7", "8", "9">>
DigitValue(c) == CHOOSE d \in 0..9 : Digits[d + 1] = c

\* int(s) of a string of decimal digits
RECURSIVE int(_)
int(s) ==
    IF Len(s) = 0 THEN 0
    ELSE 10 * int(SubSeq(s, 1, Len(s) - 1)) + DigitValue(s[Len(s)])

\* Polarity_Id[:2] and Polarity_Id[2:]
Bound_type(Polarity_Id) == SubSeq(Polarity_Id, 1, 2)
Flux_ID(Polarity_Id) == int(SubSeq(Polarity_Id, 3, Len(Polarity_Id)))

lb == <<"l", "b">>
ub == <<"u", "b">>

\* faulty variant: the lower-bound row written with the upper-bound sign
Row_vector_unsigned(item) ==
    LET k == int(SubSeq(item[1], 3, Len(item[1])))
    IN  IF SubSeq(item[1], 1, 2) \in { <<"l", "b">>, <<"u", "b">> }
        THEN [[j \in 1..NumFluxes |-> 0] EXCEPT ![k] = 1]
        ELSE [j \in 1..NumFluxes |-> 0]

\* one pass of the loop body: the row and the bound value appended for an item
Row_vector(item) ==
    LET k == Flux_ID(item[1])
    IN  IF Bound_type(item[1]) = lb THEN [zeros(NumFluxes) EXCEPT ![k] = -1]
        ELSE IF Bound_type(item[1]) = ub THEN [zeros(NumFluxes) EXCEPT ![k] = 1]
        ELSE zeros(NumFluxes)

Bound_value(item) ==
    IF Bound_type(item[1]) = lb THEN (-1) * item[2] ELSE item[2]

WrongBoundary(item) == Bound_type(item[1]) # lb /\ Bound_type(item[1]) # ub

\* the whole function: (None, None) for the empty dict, else the stacked rows
\* and bound values; printed is the number of "wrong boundary" lines
populate_boundary_inequalities(dict) ==
    IF dict = << >>
    THEN [Aineq |-> None, Bineq |-> None, printed |-> 0]
    ELSE [Aineq |-> [i \in 1..Len(dict) |-> Row_vector(dict[i])],
          Bineq |-> [i \in 1..Len(dict) |-> <<Bound_value(dict[i])>>],
          printed |-> Cardinality({i \in 1..Len(dict) : WrongBoundary(dict[i])})]

----------------------------------------------------------------------------
(* quadprog_adjust: the network rows *)

\* faulty variant: row 2 as in the older, commented-out network (fluxes 15 and 16)
AineqEntries_old ==
    << <<1, 1, 1>>, <<1, 2, -1>>, <<1, 10, -1>>,
       <<2, 2, 1>>, <<2, 3, -1>>, <<2, 15, 1>>, <<2, 16, 1>>,
       <<3, 3, 1>>, <<3, 4, 1>>, <<3, 5, -1>>, <<3, 14, 1>>, <<3, 25, 1>>,
       <<4, 5, 1>>, <<4, 6, -1>> >>

AineqEntries ==
    << <<1, 1, 1>>, <<1, 2, -1>>, <<1, 10, -1>>,
       <<2, 2, 1>>, <<2, 3, -1>>, <<2, 16, 2>>,
       <<3, 3, 1>>, <<3, 4, 1>>, <<3, 5, -1>>, <<3, 14, 1>>, <<3, 25, 1>>,
       <<4, 5, 1>>, <<4, 6, -1>> >>

Row5Entries == << <<5, 6, 1>>, <<5, 7, -1>>, <<5, 28, -1>> >>

AineqEntriesRest ==
    << <<6, 7, 1>>, <<6, 8, -1>>, <<6, 25, 1>>, <<6, 27, -1>>, <<6, 29, 1>>,
       <<7, 8, 1>>, <<7, 9, -1>>, <<7, 17, -1>>, <<7, 24, -1>>, <<7, 26, -1>>,
       <<8, 13, 1>>, <<8, 14, -1>>,
       <<9, 16, 1>>, <<9, 15, -1>>,
       <<10, 19, 1>>, <<10, 20, -1>>,
       <<11, 23, 1>>, <<11, 17, -1>>, <<11, 28, 1>>,
       <<12, 21, -1>>, <<12, 22, 1>> >>

\* the substrates the row-5 test reads, in the order it reads them
Row5Substrates ==
    << Substrate2Index.lactate, Substrate2Index.glutamate,
       Substrate2Index.acetate, Substrate2Index.citrate,
       Substrate2Index.pyruvate >>

Row5Sum(S) ==
    S[Substrate2Index.lactate] + S[Substrate2Index.glutamate]
    + S[Substrate2Index.acetate] + S[Substrate2Index.citrate]
    + S[Substrate2Index.pyruvate]

Row5Active(S) == AtLeastHalf(Row5Sum(S))

\* Aineq after the slice and the sign conversion, before the boundary rows
BaseAineq(S) ==
    LET A0 == zeros2(NumIneq + 1, NumFluxes + 1)
        A1 == Assign(A0, AineqEntries)
        A2 == IF Row5Active(S) THEN Assign(A1, Row5Entries) ELSE A1
        A3 == Assign(A2, AineqEntriesRest)
    IN  Negate(Slice1(A3, NumIneq + 1, NumFluxes + 1))

\* numpy.vstack([Aineq, Aineq_bound]) unless Aineq_bound is None
StackBound(M, bound) == IF bound # None THEN M \o bound ELSE M

BaseBineq(S) ==
    LET b0 == zeros2(NumIneq + 1, 1 + 1)
        b1 == Assign(b0,
                << <<2, 1, Times100(S[Substrate2Index.fructose])>>,
                   <<6, 1, Times100(S[Substrate2Index.pyruvate])>>,
                   <<10, 1, Times100(S[Substrate2Index.glutamate])>> >>)
    IN  Slice1(b1, NumIneq + 1, 1 + 1)

BineqSubstrates ==
    << Substrate2Index.fructose, Substrate2Index.pyruvate,
       Substrate2Index.glutamate >>

AeqEntries ==
    << <<1, 1, 1>>,
       <<2, 3, 1>>, <<2, 4, -1>>,
       <<3, 11, 1>>, <<3, 12, -1>>, <<3, 13, -1>>,
       <<4, 14, 1>>, <<4, 16, -1>>,
       <<5, 10, 1>>, <<5, 11, -1>>, <<5, 25, -1>>,
       <<6, 18, 1>>, <<6, 17, -1>>,
       <<7, 15, 1>>, <<7, 12, -1>>, <<7, 14, 1>>,
       <<8, 24, 1>>, <<8, 18, -1>>, <<8, 19, 1>>,
       <<9, 22, -1>>, <<9, 23, 1>>, <<9, 24, -1>>, <<9, 29, 1>>,
       <<10, 20, 1>>, <<10, 24, 1>>, <<10, 21, -1>> >>

BuildAeq ==
    Slice1(Assign(zeros2(NumEq + 1, NumFluxes + 1), AeqEntries),
           NumEq + 1, NumFluxes + 1)

\* faulty variant: row 1 from glucose alone
BuildBeq_glucose_only(S) ==
    LET b0 == zeros2(NumEq + 1, 1 + 1)
        b1 == Assign(b0,
                << <<1, 1, Times100(S[Substrate2Index.glucose])>>,
                   <<2, 1, (-1) * Times100(S[Substrate2Index.glycerol])>>,
                   <<5, 1, (-1) * Times100(S[Substrate2Index.gluconate])>>,
                   <<6, 1, Times100(S[Substrate2Index.citrate])>>,
                   <<7, 1, Times100(S[Substrate2Index.xylose])>>,
                   <<9, 1, Times100(S[Substrate2Index.malate])>>,
                   <<10, 1, (-1) * Times100(S[Substrate2Index.succinate])>> >>)
    IN  Slice1(b1, NumEq + 1, 1 + 1)

BuildBeq(S) ==
    LET b0 == zeros2(NumEq + 1, 1 + 1)
        b1 == Assign(b0,
                << <<1, 1, Times100(S[Substrate2Index.glucose]
                                    + S[Substrate2Index.galactose])>>,
                   <<2, 1, (-1) * Times100(S[Substrate2Index.glycerol])>>,
                   <<5, 1, (-1) * Times100(S[Substrate2Index.gluconate])>>,
                   <<6, 1, Times100(S[Substrate2Index.citrate])>>,
                   <<7, 1, Times100(S[Substrate2Index.xylose])>>,
                   <<9, 1, Times100(S[Substrate2Index.malate])>>,
                   <<10, 1, (-1) * Times100(S[Substrate2Index.succinate])>> >>)
    IN  Slice1(b1, NumEq + 1, 1 + 1)

BeqSubstrates ==
    << Substrate2Index.glucose, Substrate2Index.galactose,
       Substrate2Index.glycerol, Substrate2Index.gluconate,
       Substrate2Index.citrate, Substrate2Index.xylose,
       Substrate2Index.malate, Substrate2Index.succinate >>

\* a subscript Substrates[k] raises KeyError when k is no key
HasAll(S, keys) == \A i \in DOMAIN keys : keys[i] \in DOMAIN S

----------------------------------------------------------------------------
(* quadprog_adjust: the objective *)

\* the keys range(1, 29+1) read from Fluxes (and from Label_scalers)
HasAllFluxes(F) == \A i \in FluxIds : i \in DOMAIN F

\* faulty variant: the scales left unsquared
BuildP_unsquared(scalers) ==
    IF scalers = None THEN eye(NumFluxes)
    ELSE diag([i \in FluxIds |-> scalers[i]])

BuildP(scalers) ==
    IF scalers = None THEN eye(NumFluxes)
    ELSE square(diag([i \in FluxIds |-> scalers[i]]))

\* faulty variant: q without the "-1 *" of line 184
BuildQ_unsigned(scalers, F) ==
    IF scalers = None THEN [i \in FluxIds |-> F[i]]
    ELSE [i \in FluxIds |-> scalers[i] * scalers[i] * F[i]]

\* q after "q = -1 * numpy.array(q).transpose()" and the reshape to a column
BuildQ(scalers, F) ==
    IF scalers = None THEN [i \in FluxIds |-> (-1) * F[i]]
    ELSE [i \in FluxIds |-> (-1) * (scalers[i] * scalers[i] * F[i])]

----------------------------------------------------------------------------
(* cvxopt.solvers.qp, by its documented contract: minimise                 *)
(* (1/2) x'Px + q'x subject to Gx <= h and Ax = b.  It returns status      *)
(* "optimal" with a minimiser, or status "unknown" with the last iterate   *)
(* (it does not raise on an infeasible problem), or raises.                *)

SatisfiesEq(A, b, x) == \A i \in DOMAIN A : Dot(A[i], x) = b[i][1]
SatisfiesIneq(G, h, x) == \A i \in DOMAIN G : Dot(G[i], x) <= h[i][1]
Feasible(G, h, A, b, x) == SatisfiesEq(A, b, x) /\ SatisfiesIneq(G, h, x)

\* x'Px + 2 q'x, twice the objective
Objective2(Pm, qv, x) ==
    SumTo([i \in FluxIds |-> x[i] * Dot(Pm[i], x) + 2 * qv[i] * x[i]], NumFluxes)

\* The solver searches the reals; the model searches a grid.  GridBase(b) solves
\* Ax = b and the twelve network rows with GridSlack to spare in the rows that
\* hold flux 9 and flux 27, for every right-hand side the network builder makes;
\* the grid varies fluxes 1, 9 and 27 around it.
GridSlack == 2 * 100

GridBase(b) ==
    LET K == GridSlack
        x0 == [i \in FluxIds |-> 0]
    IN  [x0 EXCEPT ![1] = b[1][1], ![2] = (-1) * K, ![3] = K, ![4] = K - b[2][1],
                   ![5] = 2 * K, ![6] = 2 * K, ![7] = 2 * K, ![8] = K,
                   ![12] = (-1) * K, ![13] = K, ![14] = K, ![16] = K,
                   ![15] = b[7][1] - 2 * K, ![25] = (-1) * b[5][1],
                   ![18] = b[6][1], ![19] = b[6][1],
                   ![21] = (-1) * b[10][1], ![22] = (-1) * b[10][1],
                   ![29] = b[9][1] - b[10][1]]

GridValues == {-60, 0, 50}

\* the minimiser without constraints, -q[i] / P[i][i]: the anchor of the objective
Anchor(Pm, qv) == [i \in FluxIds |-> ((-1) * qv[i]) \div Pm[i][i]]

Candidates(Pm, qv, b) ==
    { [GridBase(b) EXCEPT ![1] = a, ![9] = c, ![27] = d] :
        a \in {b[1][1]} \cup {50}, c \in GridValues, d \in GridValues }
    \cup { Anchor(Pm, qv) }

\* iterates a run that did not converge may stop at
LastIterates(b) ==
    { GridBase(b), [GridBase(b) EXCEPT ![1] = 50], [GridBase(b) EXCEPT ![9] = 50] }

\* for each grid point: is it feasible, and twice its objective
Score(Pm, qv, G, h, A, b) ==
    [x \in Candidates(Pm, qv, b) |->
        IF Feasible(G, h, A, b, x)
        THEN [feasible |-> TRUE, value |-> Objective2(Pm, qv, x)]
        ELSE [feasible |-> FALSE, value |-> 0]]

Minimisers(score) ==
    { x \in DOMAIN score :
        /\ score[x].feasible
        /\ \A y \in DOMAIN score :
              score[y].feasible => score[x].value <= score[y].value }

\* The outcomes of qp(P, q, G, h, A, b): "optimal" with a minimiser; "unknown"
\* with the last iterate; and, for a problem with no feasible point, an
\* exception out of the KKT solver ("raise")
qp(Pm, qv, G, h, A, b) ==
    LET score == Score(Pm, qv, G, h, A, b)
        best == Minimisers(score)
    IN  { [status |-> "optimal", x |-> x] : x \in best }
        \cup { [status |-> "unknown", x |-> x] : x \in LastIterates(b) }
        \cup (IF best = {} THEN { [status |-> "raise", x |-> None] } ELSE {})

----------------------------------------------------------------------------
(* rule_adjust *)

\* faulty variant: the two rules write each other's flux
rule_adjust_swapped(I, S) ==
    LET I1 == IF S[Substrate2Index.acetate] # 0
              THEN [I EXCEPT ![27] = (-1) * Times100(S[Substrate2Index.acetate])]
              ELSE I
    IN  IF S[Substrate2Index.lactate] # 0
        THEN [I1 EXCEPT ![9] = (-1) * Times100(S[Substrate2Index.lactate])]
        ELSE I1

rule_adjust(I, S) ==
    LET I1 == IF S[Substrate2Index.acetate] # 0
              THEN [I EXCEPT ![9] = (-1) * Times100(S[Substrate2Index.acetate])]
              ELSE I
    IN  IF S[Substrate2Index.lactate] # 0
        THEN [I1 EXCEPT ![27] = (-1) * Times100(S[Substrate2Index.lactate])]
        ELSE I1

RuleSubstrates == << Substrate2Index.acetate, Substrate2Index.lactate >>

----------------------------------------------------------------------------
(* special_species *)

SpecialSpeciesDict == 201..206

\* TRUE when Dict[ID] is found (after 207 is taken for 205), else KeyError
special_species_found(ID) ==
    LET ID1 == IF ID = 207 THEN 205 ELSE ID
    IN  ID1 \in SpecialSpeciesDict

----------------------------------------------------------------------------
(* Bounds of the model and the inputs drawn within them *)

MaxRatioUnits == 2
MaxBounds == 1
MaxBuilderBounds == 2
MaxFields == 2

RatioValues == 0..MaxRatioUnits

\* str(k) for 0 <= k <= 99
str(k) ==
    IF k < 10 THEN << Digits[k + 1] >>
    ELSE << Digits[(k \div 10) + 1], Digits[(k % 10) + 1] >>

xb == <<"x", "b">>

Key(token, k) == token \o str(k)

\* a dict has one item per key
DistinctKeys(d) == \A i, j \in DOMAIN d : i # j => d[i][1] # d[j][1]

----------------------------------------------------------------------------
(* process_boundaries *)

\* "lb1" .. "lb29", then "ub1" .. "ub29"
Feature_names ==
    [n \in 1..(2 * NumFluxes) |->
        IF n <= NumFluxes THEN Key(lb, n) ELSE Key(ub, n - NumFluxes)]

\* a form field is [key, kind, num]: kind "empty" for the empty string,
\* "number" for a string float() reads as num, "text" for any other string
request_get(req, name) == CHOOSE it \in req : it.key = name

\* "if Feature_value:" - the field is there and is not the empty string
Submitted(req, name) == \E it \in req : it.key = name /\ it.kind # "empty"

\* float(Feature_value) raises ValueError
NotAFloat(req) ==
    \E n \in DOMAIN Feature_names :
        /\ Submitted(req, Feature_names[n])
        /\ request_get(req, Feature_names[n]).kind = "text"

\* Features after the first n names of the loop
RECURSIVE Features_loop(_, _)
Features_loop(req, n) ==
    IF n = 0 THEN << >>
    ELSE LET Features == Features_loop(req, n - 1)
             Feature_name == Feature_names[n]
         IN  IF Submitted(req, Feature_name)
             THEN Append(Features, << Feature_name, request_get(req, Feature_name).num >>)
             ELSE Features

\* d[key] = v on a dict kept in insertion order
SetItem(d, key, v) ==
    IF \E i \in DOMAIN d : d[i][1] = key
    THEN [i \in DOMAIN d |-> IF d[i][1] = key THEN << key, v >> ELSE d[i]]
    ELSE Append(d, << key, v >>)

\* faulty variant: a submitted lb9 / lb27 is kept (setdefault)
process_boundaries_keep(req, S) ==
    LET setdefault(d, key, v) ==
            IF \E i \in DOMAIN d : d[i][1] = key THEN d
            ELSE Append(d, << key, v >>)
        F0 == Features_loop(req, Len(Feature_names))
        F1 == IF S[Substrate2Index.acetate] = 0
              THEN setdefault(F0, Key(lb, 9), 0) ELSE F0
    IN  IF S[Substrate2Index.lactate] = 0
        THEN setdefault(F1, Key(lb, 27), 0) ELSE F1

process_boundaries(req, S) ==
    LET F0 == Features_loop(req, Len(Feature_names))
        F1 == IF S[Substrate2Index.acetate] = 0
              THEN SetItem(F0, Key(lb, 9), 0) ELSE F0
    IN  IF S[Substrate2Index.lactate] = 0
        THEN SetItem(F1, Key(lb, 27), 0) ELSE F1

----------------------------------------------------------------------------

RECURSIVE SeqsUpTo(_, _)
SeqsUpTo(S, n) ==
    IF n = 0 THEN { << >> }
    ELSE LET shorter == SeqsUpTo(S, n - 1)
         IN  shorter \cup { Append(d, e) : d \in shorter, e \in S }

BoundaryDicts(items, n) == { d \in SeqsUpTo(items, n) : DistinctKeys(d) }

\* the items of a request of the pipeline: bounds on the flux that equality
\* row 1 fixes and on the two fluxes rule_adjust rewrites, and a key whose
\* direction is neither lb nor ub
PipelineItems ==
    { << Key(ub, 1), 50 >>, << Key(ub, 9), -60 >>, << Key(lb, 9), 50 >>,
      << Key(ub, 27), 50 >>, << Key(lb, 27), -60 >>, << Key(xb, 9), 50 >> }

\* the substrates a request of the pipeline names as first and second source
PipelineSubstrates ==
    { Substrate2Index.glucose, Substrate2Index.lactate, Substrate2Index.acetate }

SpeciesValues == {200, 201, 207, 208}

\* form fields a request may carry: bounds on flux 9 and flux 27, an empty
\* field, a field that is no number and a field whose name is no bound
Field(key, kind, num) == [key |-> key, kind |-> kind, num |-> num]

RequestFields ==
    { Field(Key(lb, 9), "number", 50), Field(Key(lb, 9), "empty", 0),
      Field(Key(lb, 27), "number", -60), Field(Key(ub, 9), "number", 50),
      Field(Key(ub, 27), "number", 0), Field(Key(ub, 9), "text", 0),
      Field(Key(xb, 9), "number", 50) }

Requests(n) ==
    { r \in SUBSET RequestFields :
        /\ Cardinality(r) <= n
        /\ \A a, b \in r : a.key = b.key => a = b }

\* the one bound of the requests that exercise the objective
ObjectiveItems == { << Key(ub, 9), -60 >> }

\* the items of a request to the boundary builder alone
BuilderItems ==
    { << Key(t, k), v >> : t \in {lb, ub}, k \in {1, 9, 27}, v \in {-60, 50} }
    \cup { << Key(xb, 9), 50 >> }

\* substrate maps a caller may pass with a key missing
DroppedKeys == { {}, {Substrate2Index.lactate}, {Substrate2Index.fructose},
                 {Substrate2Index.glucose} }

\* label_scalers.p: one scale_ per flux
LabelScalerFile == [i \in FluxIds |-> IF i % 2 = 1 THEN 1 ELSE 2]

\* Vector[1] is the species (Vector[0] in the source), Vector[1 + i] the ratio
\* of substrate i; the eight other features are not read by this module
VectorRatios(V) == [i \in SubstrateIds |-> V[1 + i]]

\* what the 29 regressors may predict for a feature vector: a vector on the
\* network's equalities, one off equality row 1 and one that moves flux 9
Predictions(V) ==
    LET base == GridBase(BuildBeq(VectorRatios(V)))
    IN  { base, [base EXCEPT ![1] = @ + 10], [base EXCEPT ![9] = 50] }

\* a models file that lacks the regressor of flux 9
PredictionsMissing(V) ==
    { [i \in FluxIds \ {9} |-> F[i]] : F \in Predictions(V) }

OnNetwork(V) == GridBase(BuildBeq(VectorRatios(V)))

\* what the regressors may predict for flux 9 in such a request
PredictionsRequest(V) == { OnNetwork(V), [OnNetwork(V) EXCEPT ![9] = -60] }

\* a prediction on the network that already has flux 9 at -100 x acetate and
\* flux 27 at -100 x lactate
Reconciled(V) ==
    [OnNetwork(V) EXCEPT
        ![9] = (-1) * Times100(VectorRatios(V)[Substrate2Index.acetate]),
        ![27] = (-1) * Times100(VectorRatios(V)[Substrate2Index.lactate])]

\* that prediction, and one off equality row 1
PredictionsReconciled(V) ==
    { Reconciled(V), [Reconciled(V) EXCEPT ![1] = @ + 10] }

----------------------------------------------------------------------------
(* The request *)

Init ==
    /\ pc = "idle"
    /\ Vector = None
    /\ Substrates = None
    /\ Boundary_dict = << >>
    /\ Label_scalers = None
    /\ Fluxes = None
    /\ Aineq_bound = None
    /\ Bineq_bound = None
    /\ Aineq = None
    /\ bineq = None
    /\ Aeq = None
    /\ beq = None
    /\ P = None
    /\ q = None
    /\ Solv = [status |-> "", x |-> None]
    /\ built = {}
    /\ Influxes = None
    /\ result = None
    /\ error = ""
    /\ stdout = << >>
    /\ request = {}

qpLocals == << Aineq_bound, Bineq_bound, Aineq, bineq, Aeq, beq, P, q, Solv, built >>
inputs == << Vector, Substrates, Boundary_dict, request >>

\* an uncaught exception ends the request
Raise(e) == /\ pc' = "raised"
            /\ error' = e

process_input(Species, Substrate_first, Ratio_first, Substrate_sec, Ratio_sec) ==
    /\ pc = "idle"
    /\ LET S0 == [i \in SubstrateIds |-> 0]
           S1 == [S0 EXCEPT ![Substrate_first] = @ + Ratio_first]
           S2 == [S1 EXCEPT ![Substrate_sec] = @ + Ratio_sec]
       IN  /\ Substrates' = S2
           /\ Vector' = << Species >> \o S2
    /\ pc' = "input"
    /\ UNCHANGED << Boundary_dict, request, Label_scalers, Fluxes, qpLocals,
                    Influxes, result, error, stdout >>

\* the caller invokes predict(Vector, Substrates, Boundary_dict, ...); a caller's
\* substrate map may lack keys
predict_call(dict, dropped) ==
    /\ pc = "input"
    /\ Boundary_dict' = dict
    /\ Substrates' = [k \in SubstrateIds \ dropped |-> Substrates[k]]
    /\ pc' = "predict"
    /\ UNCHANGED << Vector, request, Label_scalers, Fluxes, qpLocals, Influxes,
                    result, error, stdout >>

\* the caller reads the bounds of the form with process_boundaries and invokes
\* predict with them
process_boundaries_call(req) ==
    /\ pc = "input"
    /\ request' = req
    /\ IF NotAFloat(req)
       THEN /\ Raise("ValueError")
            /\ UNCHANGED Boundary_dict
       ELSE /\ Boundary_dict' = process_boundaries(req, Substrates)
            /\ pc' = "predict"
            /\ UNCHANGED error
    /\ UNCHANGED << Vector, Substrates, Label_scalers, Fluxes, qpLocals, Influxes,
                    result, stdout >>

\* "if Vector[0] > 200": special_species, then return None
predict_special ==
    /\ pc = "predict"
    /\ Vector[1] > SpecialSpeciesAbove
    /\ IF special_species_found(Vector[1])
       THEN /\ stdout' = Append(stdout, "special species")
            /\ result' = None
            /\ pc' = "done"
            /\ UNCHANGED error
       ELSE /\ Raise("KeyError")
            /\ UNCHANGED << result, stdout >>
    /\ UNCHANGED << inputs, Label_scalers, Fluxes, qpLocals, Influxes >>

\* the pickles are loaded and the 29 regressors run
predict_regress(F) ==
    /\ pc = "predict"
    /\ ~ (Vector[1] > SpecialSpeciesAbove)
    /\ Label_scalers' = LabelScalerFile
    /\ Fluxes' = F
    /\ pc' = "qp_boundary"
    /\ UNCHANGED << inputs, qpLocals, Influxes, result, error, stdout >>

\* a caller of quadprog_adjust that passes no Label_scalers (the default, None)
quadprog_adjust_direct(F) ==
    /\ pc = "predict"
    /\ Label_scalers' = None
    /\ Fluxes' = F
    /\ pc' = "qp_boundary"
    /\ UNCHANGED << inputs, qpLocals, Influxes, result, error, stdout >>

\* quadprog_adjust, line 100
qp_boundary ==
    /\ pc = "qp_boundary"
    /\ LET r == populate_boundary_inequalities(Boundary_dict)
       IN  /\ Aineq_bound' = r.Aineq
           /\ Bineq_bound' = r.Bineq
           /\ stdout' = stdout \o [i \in 1..r.printed |-> "wrong boundary"]
    /\ built' = built \cup {"Aineq_bound", "Bineq_bound"}
    /\ pc' = "qp_Aineq"
    /\ UNCHANGED << inputs, Label_scalers, Fluxes, Aineq, bineq, Aeq, beq, P, q,
                    Solv, Influxes, result, error >>

\* lines 102-132
qp_Aineq ==
    /\ pc = "qp_Aineq"
    /\ IF HasAll(Substrates, Row5Substrates)
       THEN /\ Aineq' = StackBound(BaseAineq(Substrates), Aineq_bound)
            /\ built' = built \cup {"Aineq"}
            /\ pc' = "qp_bineq"
            /\ UNCHANGED error
       ELSE /\ Raise("KeyError")
            /\ UNCHANGED << Aineq, built >>
    /\ UNCHANGED << inputs, Label_scalers, Fluxes, Aineq_bound, Bineq_bound, bineq,
                    Aeq, beq, P, q, Solv, Influxes, result, stdout >>

\* lines 135-146
qp_bineq ==
    /\ pc = "qp_bineq"
    /\ IF HasAll(Substrates, BineqSubstrates)
       THEN /\ bineq' = StackBound(BaseBineq(Substrates), Bineq_bound)
            /\ built' = built \cup {"bineq"}
            /\ pc' = "qp_Aeq"
            /\ UNCHANGED error
       ELSE /\ Raise("KeyError")
            /\ UNCHANGED << bineq, built >>
    /\ UNCHANGED << inputs, Label_scalers, Fluxes, Aineq_bound, Bineq_bound, Aineq,
                    Aeq, beq, P, q, Solv, Influxes, result, stdout >>

\* lines 148-160
qp_Aeq ==
    /\ pc = "qp_Aeq"
    /\ Aeq' = BuildAeq
    /\ built' = built \cup {"Aeq"}
    /\ pc' = "qp_beq"
    /\ UNCHANGED << inputs, Label_scalers, Fluxes, Aineq_bound, Bineq_bound, Aineq,
                    bineq, beq, P, q, Solv, Influxes, result, error, stdout >>

\* lines 163-172
qp_beq ==
    /\ pc = "qp_beq"
    /\ IF HasAll(Substrates, BeqSubstrates)
       THEN /\ beq' = BuildBeq(Substrates)
            /\ built' = built \cup {"beq"}
            /\ pc' = "qp_objective"
            /\ UNCHANGED error
       ELSE /\ Raise("KeyError")
            /\ UNCHANGED << beq, built >>
    /\ UNCHANGED << inputs, Label_scalers, Fluxes, Aineq_bound, Bineq_bound, Aineq,
                    bineq, Aeq, P, q, Solv, Influxes, result, stdout >>

\* lines 174-188
qp_objective ==
    /\ pc = "qp_objective"
    /\ IF HasAllFluxes(Fluxes)
       THEN /\ P' = BuildP(Label_scalers)
            /\ q' = BuildQ(Label_scalers, Fluxes)
            /\ built' = built \cup {"P", "q"}
            /\ pc' = "qp_solve"
            /\ UNCHANGED error
       ELSE /\ Raise("KeyError")
            /\ UNCHANGED << P, q, built >>
    /\ UNCHANGED << inputs, Label_scalers, Fluxes, Aineq_bound, Bineq_bound, Aineq,
                    bineq, Aeq, beq, Solv, Influxes, result, stdout >>

\* lines 190-198: Solv['x'] is taken whatever Solv['status'] is
qp_solve ==
    /\ pc = "qp_solve"
    /\ \E r \in qp(P, q, Aineq, bineq, Aeq, beq) :
          IF r.status = "raise"
          THEN /\ Raise("ArithmeticError")
               /\ UNCHANGED << Solv, built >>
          ELSE /\ Solv' = r
               /\ built' = built \cup {"Solv"}
               /\ pc' = "qp_return"
               /\ UNCHANGED error
    /\ UNCHANGED << inputs, Label_scalers, Fluxes, Aineq_bound, Bineq_bound, Aineq,
                    bineq, Aeq, beq, P, q, Influxes, result, stdout >>

\* lines 200-214 and the assignment of line 484
qp_return ==
    /\ pc = "qp_return"
    /\ Influxes' = [i \in FluxIds |-> Solv.x[i]]
    /\ stdout' = Append(stdout, "debug table")
    /\ pc' = "rule_adjust"
    /\ UNCHANGED << inputs, Label_scalers, Fluxes, qpLocals, result, error >>

\* line 485
predict_rule_adjust ==
    /\ pc = "rule_adjust"
    /\ IF HasAll(Substrates, RuleSubstrates)
       THEN /\ Influxes' = rule_adjust(Influxes, Substrates)
            /\ pc' = "return"
            /\ UNCHANGED error
       ELSE /\ Raise("KeyError")
            /\ UNCHANGED Influxes
    /\ UNCHANGED << inputs, Label_scalers, Fluxes, qpLocals, result, stdout >>

\* lines 487-495
predict_return ==
    /\ pc = "return"
    /\ result' = Influxes
    /\ stdout' = Append(stdout, "influxes")
    /\ pc' = "done"
    /\ UNCHANGED << inputs, Label_scalers, Fluxes, qpLocals, Influxes, error >>

quadprog_adjust ==
    \/ qp_boundary
    \/ qp_Aineq
    \/ qp_bineq
    \/ qp_Aeq
    \/ qp_beq
    \/ qp_objective
    \/ qp_solve
    \/ qp_return

\* everything of predict after the regressors
predict_adjust ==
    \/ quadprog_adjust
    \/ predict_rule_adjust
    \/ predict_return

Regress == pc = "predict" /\ \E F \in Predictions(Vector) : predict_regress(F)

Next ==
    \/ \E sp \in SpeciesValues, s1, s2 \in PipelineSubstrates, r1, r2 \in RatioValues :
          process_input(sp, s1, r1, s2, r2)
    \/ \E d \in BoundaryDicts(PipelineItems, MaxBounds) : predict_call(d, {})
    \/ predict_special
    \/ Regress
    \/ predict_adjust

Spec == Init /\ [][Next]_vars

\* the boundary builder over richer dicts, up to the stacked inequality system
NextBoundary ==
    \/ \E r1, r2 \in RatioValues :
          process_input(200, Substrate2Index.glucose, r1, Substrate2Index.glucose, r2)
    \/ \E d \in BoundaryDicts(BuilderItems, MaxBuilderBounds) : predict_call(d, {})
    \/ pc = "predict" /\ predict_regress(OnNetwork(Vector))
    \/ qp_boundary
    \/ qp_Aineq
    \/ qp_bineq

SpecBoundary == Init /\ [][NextBoundary]_vars

\* the network builder over all fourteen substrates, up to the equality system
NextNetwork ==
    \/ \E s1, s2 \in SubstrateIds, r1, r2 \in RatioValues :
          process_input(200, s1, r1, s2, r2)
    \/ predict_call(<< >>, {})
    \/ pc = "predict" /\ predict_regress(OnNetwork(Vector))
    \/ qp_boundary
    \/ qp_Aineq
    \/ qp_bineq
    \/ qp_Aeq
    \/ qp_beq

SpecNetwork == Init /\ [][NextNetwork]_vars

\* requests whose substrate map or predicted vector lacks a key
NextMissing ==
    \/ \E s1, s2 \in PipelineSubstrates, r1, r2 \in RatioValues :
          process_input(200, s1, r1, s2, r2)
    \/ \E d \in BoundaryDicts(PipelineItems, MaxBounds), k \in DroppedKeys :
          predict_call(d, k)
    \/ pc = "predict" /\ \E F \in PredictionsMissing(Vector) : predict_regress(F)
    \/ pc = "predict" /\ DOMAIN Substrates # SubstrateIds
          /\ predict_regress(OnNetwork(Vector))
    \/ qp_boundary
    \/ qp_Aineq
    \/ qp_bineq
    \/ qp_Aeq
    \/ qp_beq
    \/ qp_objective

SpecMissing == Init /\ [][NextMissing]_vars

\* requests whose prediction already agrees with the two rules
NextReconciled ==
    \/ \E s1, s2 \in PipelineSubstrates, r1, r2 \in RatioValues :
          process_input(200, s1, r1, s2, r2)
    \/ \E d \in BoundaryDicts(PipelineItems, MaxBounds) : predict_call(d, {})
    \/ pc = "predict" /\ \E F \in PredictionsReconciled(Vector) : predict_regress(F)
    \/ predict_adjust

SpecReconciled == Init /\ [][NextReconciled]_vars

\* requests whose bounds come from process_boundaries
NextRequest ==
    \/ \E s1, s2 \in PipelineSubstrates, r1, r2 \in RatioValues :
          process_input(200, s1, r1, s2, r2)
    \/ \E req \in Requests(MaxFields) : process_boundaries_call(req)
    \/ pc = "predict" /\ \E F \in PredictionsRequest(Vector) : predict_regress(F)
    \/ predict_adjust

SpecRequest == Init /\ [][NextRequest]_vars

\* quadprog_adjust with and without label scalers, up to the solver's answer
NextObjective ==
    \/ \E s1, s2 \in PipelineSubstrates, r1, r2 \in RatioValues :
          process_input(200, s1, r1, s2, r2)
    \/ \E d \in BoundaryDicts(ObjectiveItems, MaxBounds) : predict_call(d, {})
    \/ Regress
    \/ pc = "predict" /\ \E F \in Predictions(Vector) : quadprog_adjust_direct(F)
    \/ qp_boundary
    \/ qp_Aineq
    \/ qp_bineq
    \/ qp_Aeq
    \/ qp_beq
    \/ qp_objective
    \/ qp_solve

SpecObjective == Init /\ [][NextObjective]_vars

----------------------------------------------------------------------------
(* The claims *)

Support(row) == { j \in DOMAIN row : row[j] # 0 }
Unit(k, c) == [j \in 1..29 |-> IF j = k THEN c ELSE 0]
Ended == pc \in {"done", "raised"}
Returned == pc = "done" /\ result # None

\* C1: after quadprog_adjust and rule_adjust, the returned flux 9 is exactly
\* -100 x the acetate ratio when that ratio (substrate 13) is nonzero, and
\* flux 27 is exactly -100 x the lactate ratio when that ratio (substrate 10)
\* is nonzero, whatever the QP step gave for them.
C1_RulePrecedence ==
    Returned =>
        /\ (Substrates[13] # 0 => RatioDen * result[9] = (-100) * Substrates[13])
        /\ (Substrates[10] # 0 => RatioDen * result[27] = (-100) * Substrates[10])

\* a request with acetate and lactate returned, the QP having solved it with
\* other values for flux 9 and flux 27
C1_Witness ==
    /\ Returned
    /\ Substrates[13] # 0
    /\ Substrates[10] # 0
    /\ Solv.status = "optimal"
    /\ Solv.x[9] # result[9]
    /\ Solv.x[27] # result[27]

\* C2: for a feasible request that the QP solved, the vector returned satisfies
\* every equality row, every base inequality row and every boundary row (so an
\* upper bound "flux k <= v" gives a returned x_k <= v, for k = 9 and 27 too).
C2_ReturnedSatisfiesConstraints ==
    (Returned /\ Solv.status = "optimal") =>
        /\ SatisfiesEq(Aeq, beq, result)
        /\ SatisfiesIneq(Aineq, bineq, result)

\* C3: when no flux vector satisfies the constraints, the request ends in a
\* failure: no vector reaches rule_adjust or the caller.
NoFeasiblePoint ==
    \A x \in Candidates(P, q, beq) : ~ Feasible(Aineq, bineq, Aeq, beq, x)

C3_InfeasibleFails ==
    ("q" \in built /\ NoFeasiblePoint) =>
        /\ pc \in {"qp_solve", "qp_return", "raised"}
        /\ Influxes = None
        /\ result = None

\* C4: an item whose direction is neither lb nor ub makes the boundary builder
\* fail: it adds no row to (A_ineq, b_ineq) and no system reaches the solver.
HasWrongToken ==
    \E i \in DOMAIN Boundary_dict :
        SubSeq(Boundary_dict[i][1], 1, 2) \notin { <<"l", "b">>, <<"u", "b">> }

C4_WrongTokenRejected ==
    HasWrongToken =>
        /\ Aineq_bound = None
        /\ Aineq = None
        /\ "Solv" \notin built

\* C5: for a boundary dict of n valid items, the rows after the 12 base rows
\* are one per item, in order (12 + n rows; 12 for the empty dict): "ub k = v"
\* gives +1 at flux k alone and right-hand side v, "lb k = v" gives -1 at flux
\* k alone and right-hand side -v; the sign conversion of the network rows does
\* not touch them.
AllValid ==
    \A i \in DOMAIN Boundary_dict :
        \E t \in { <<"l", "b">>, <<"u", "b">> }, k \in 1..29 :
            Boundary_dict[i][1] = Key(t, k)

C5_BoundaryRows ==
    ({"Aineq", "bineq"} \subseteq built /\ AllValid) =>
        /\ Len(Aineq) = 12 + Len(Boundary_dict)
        /\ Len(bineq) = 12 + Len(Boundary_dict)
        /\ \A i \in DOMAIN Boundary_dict, k \in 1..29 :
              LET key == Boundary_dict[i][1]
                  v == Boundary_dict[i][2]
              IN  /\ key = Key(<<"u", "b">>, k) =>
                        Aineq[12 + i] = Unit(k, 1) /\ bineq[12 + i][1] = v
                  /\ key = Key(<<"l", "b">>, k) =>
                        Aineq[12 + i] = Unit(k, -1) /\ bineq[12 + i][1] = (-1) * v

\* a lower bound on flux 27 and then an upper bound on flux 9, both stacked
C5_Witness ==
    /\ {"Aineq", "bineq"} \subseteq built
    /\ Len(Boundary_dict) = 2
    /\ Boundary_dict[1] = << <<"l", "b", "2", "7">>, 50 >>
    /\ Boundary_dict[2] = << <<"u", "b", "9">>, -60 >>
    /\ Aineq[13][27] = -1
    /\ bineq[13][1] = -50
    /\ Aineq[14][9] = 1
    /\ bineq[14][1] = -60

\* the nonzero positions of the network rows as the source writes them
EqPattern ==
    << {1}, {3, 4}, {11, 12, 13}, {14, 16}, {10, 11, 25}, {17, 18},
       {12, 14, 15}, {18, 19, 24}, {22, 23, 24, 29}, {20, 21, 24} >>

IneqPattern ==
    << {1, 2, 10}, {2, 3, 16}, {3, 4, 5, 14, 25}, {5, 6}, {6, 7, 28},
       {7, 8, 25, 27, 29}, {8, 9, 17, 24, 26}, {13, 14}, {15, 16}, {19, 20},
       {17, 23, 28}, {21, 22} >>

NetworkBuilt == {"Aineq", "bineq", "Aeq", "beq"} \subseteq built

\* C6, as claimed: the 10 equality rows and the 12 base inequality rows have
\* one sparsity pattern whatever the substrate ratios.
C6_FixedPattern ==
    NetworkBuilt =>
        /\ \A i \in 1..10 : Support(Aeq[i]) = EqPattern[i]
        /\ \A i \in 1..12 : Support(Aineq[i]) = IneqPattern[i]

\* C6, amended: the 10 equality rows and the base inequality rows other than
\* row 5 have one sparsity pattern whatever the substrate ratios; row 5 is
\* nonzero at fluxes 6, 7 and 28 or nowhere.
C6_FixedPatternButRow5 ==
    NetworkBuilt =>
        /\ Len(Aeq) = 10
        /\ \A i \in 1..10 : Support(Aeq[i]) = EqPattern[i]
        /\ \A i \in (1..12) \ {5} : Support(Aineq[i]) = IneqPattern[i]
        /\ Support(Aineq[5]) \in { {}, {6, 7, 28} }

\* two substrates in use, and row 5 all zero
C6_Witness ==
    /\ NetworkBuilt
    /\ Substrates[2] # 0
    /\ Substrates[13] # 0
    /\ Support(Aineq[5]) = {}

\* C7: base inequality row 5 is nonzero exactly at fluxes 6, 7 and 28 if and
\* only if lactate + glutamate + acetate + citrate + pyruvate >= 0.5 (0.5
\* included) and all zero otherwise; its right-hand side is 0 either way.
C7_Row5Activation ==
    {"Aineq", "bineq"} \subseteq built =>
        LET sum == Substrates[10] + Substrates[5] + Substrates[13]
                   + Substrates[6] + Substrates[11]
        IN  /\ 2 * sum >= RatioDen => Support(Aineq[5]) = {6, 7, 28}
            /\ 2 * sum < RatioDen => Support(Aineq[5]) = {}
            /\ bineq[5][1] = 0

\* the sum is exactly 0.5, from two substrates, and the row is populated
C7_Witness ==
    /\ {"Aineq", "bineq"} \subseteq built
    /\ Substrates[5] # 0
    /\ Substrates[11] # 0
    /\ 2 * (Substrates[5] + Substrates[11]) = RatioDen
    /\ Support(Aineq[5]) = {6, 7, 28}

\* C8: the right-hand sides are functions of the ratios alone: b_eq is
\* 100(glucose+galactose), -100 glycerol, 0, 0, -100 gluconate, 100 citrate,
\* 100 xylose, 0, 100 malate, -100 succinate; b_ineq is 100 fructose in row 2,
\* 100 pyruvate in row 6, 100 glutamate in row 10 and 0 elsewhere; equality
\* row 1 has its one coefficient at flux 1, so glucose = 1 alone gives
\* flux[1] = 100.
C8_RightHandSides ==
    NetworkBuilt =>
        LET S == Substrates
            D == RatioDen
        IN  /\ D * beq[1][1] = 100 * (S[1] + S[3])
            /\ D * beq[2][1] = (-100) * S[12]
            /\ D * beq[5][1] = (-100) * S[4]
            /\ D * beq[6][1] = 100 * S[6]
            /\ D * beq[7][1] = 100 * S[7]
            /\ D * beq[9][1] = 100 * S[9]
            /\ D * beq[10][1] = (-100) * S[8]
            /\ \A i \in {3, 4, 8} : beq[i][1] = 0
            /\ D * bineq[2][1] = 100 * S[2]
            /\ D * bineq[6][1] = 100 * S[11]
            /\ D * bineq[10][1] = 100 * S[5]
            /\ \A i \in (1..12) \ {2, 6, 10} : bineq[i][1] = 0
            /\ Aeq[1] = Unit(1, 1)
            /\ (S = [i \in 1..14 |-> IF i = 1 THEN D ELSE 0]) => beq[1][1] = 100

\* glucose = 1 and nothing else: equality row 1 reads flux[1] = 100
C8_Witness ==
    /\ NetworkBuilt
    /\ Substrates = [i \in 1..14 |-> IF i = 1 THEN RatioDen ELSE 0]
    /\ Aeq[1] = Unit(1, 1)
    /\ beq[1][1] = 100

SpecialRequest == pc # "idle" /\ Vector[1] > 200

\* C9: for a species identifier above 200 neither quadprog_adjust nor
\* rule_adjust runs and predict returns None.
C9_SpecialReturnsNone ==
    SpecialRequest =>
        /\ built = {}
        /\ Influxes = None
        /\ Ended => (pc = "done" /\ result = None)

MissingKey == pc # "idle" /\ pc # "input" /\
              (DOMAIN Substrates # 1..14 \/ (Fluxes # None /\ DOMAIN Fluxes # 1..29))

\* C10: when the predicted vector lacks a key of 1..29 or the substrate map
\* lacks a key it reads, quadprog_adjust fails before any construction step
\* (boundary rows, A_ineq, b_ineq, A_eq, b_eq), and no flux vector is returned.
C10_FailsBeforeConstruction ==
    (MissingKey /\ pc = "raised") =>
        /\ built = {}
        /\ result = None

\* C11: if the predicted vector already satisfies every equality row, every
\* inequality row (network and boundary) and both rules of rule_adjust, then
\* the only minimiser of the objective is the prediction itself, and a request
\* the solver solved returns the prediction unchanged.
AlreadyReconciled ==
    /\ {"Aineq", "bineq", "Aeq", "beq", "P", "q"} \subseteq built
    /\ Feasible(Aineq, bineq, Aeq, beq, Fluxes)
    /\ rule_adjust(Fluxes, Substrates) = Fluxes

C11_Idempotence ==
    AlreadyReconciled =>
        /\ pc = "qp_solve" =>
              Minimisers(Score(P, q, Aineq, bineq, Aeq, beq)) = { Fluxes }
        /\ (Solv.status = "optimal" /\ Influxes # None) => Influxes = Fluxes
        /\ (Solv.status = "optimal" /\ Returned) => result = Fluxes

\* such a request, with a boundary row, acetate and lactate, returned
C11_Witness ==
    /\ AlreadyReconciled
    /\ Returned
    /\ Solv.status = "optimal"
    /\ result = Fluxes
    /\ Boundary_dict # << >>
    /\ Substrates[Substrate2Index.acetate] # 0
    /\ Substrates[Substrate2Index.lactate] # 0
    /\ Fluxes # OnNetwork(Vector)

\* C12: without label scalers P is the 29 x 29 identity and q[i] is
\* -predicted[i]; with scales s_i, P is diagonal with P[i][i] = s_i^2 and q[i]
\* is -s_i^2 x predicted[i]; either way P is diagonal with no negative entry,
\* and the solver's answer is for exactly this P and q.
C12_Objective ==
    {"P", "q"} \subseteq built =>
        /\ DOMAIN P = 1..29 /\ DOMAIN q = 1..29
        /\ \A i \in 1..29 :
              /\ DOMAIN P[i] = 1..29
              /\ \A j \in 1..29 : (i # j => P[i][j] = 0) /\ P[i][j] >= 0
              /\ IF Label_scalers = None
                 THEN P[i][i] = 1 /\ q[i] = 0 - Fluxes[i]
                 ELSE /\ P[i][i] = Label_scalers[i] * Label_scalers[i]
                      /\ q[i] = 0 - (Label_scalers[i] * Label_scalers[i] * Fluxes[i])
        /\ Solv.status = "optimal" =>
              Solv.x \in Minimisers(Score(P, q, Aineq, bineq, Aeq, beq))

\* a solve without scalers
C12_WitnessPlain ==
    /\ "Solv" \in built
    /\ Solv.status = "optimal"
    /\ Label_scalers = None
    /\ q[1] # 0

\* a solve with scales that are not all 1, for a prediction that is not zero
C12_Witness ==
    /\ "Solv" \in built
    /\ Solv.status = "optimal"
    /\ Label_scalers # None
    /\ P[2][2] = 4
    /\ q[2] = 800

\* C13: process_boundaries sets lb9 = 0 whenever the acetate ratio is 0 and
\* lb27 = 0 whenever the lactate ratio is 0, in place of any value submitted for
\* them, and passes every other submitted bound through unchanged; so flux 9
\* (flux 27) gets the boundary row "flux >= 0" and no override when its ratio is
\* 0, and the override to -100 x ratio and no forced entry when it is not.
DictHas(d, key, v) == \E i \in DOMAIN d : d[i] = << key, v >>
FromBoundaries == pc \notin {"idle", "input"} /\ error # "ValueError"
ForcedKeys ==
    (IF Substrates[Substrate2Index.acetate] = 0 THEN { Key(lb, 9) } ELSE {})
    \cup (IF Substrates[Substrate2Index.lactate] = 0 THEN { Key(lb, 27) } ELSE {})
BoundNames == { Key(t, k) : t \in {lb, ub}, k \in 1..29 }
HasRow(k, c, v) ==
    \E i \in DOMAIN Aineq : i > 12 /\ Aineq[i] = Unit(k, c) /\ bineq[i][1] = v

C13_ForcedLowerBounds ==
    FromBoundaries =>
        /\ DistinctKeys(Boundary_dict)
        /\ \A key \in ForcedKeys : DictHas(Boundary_dict, key, 0)
        /\ \A i \in DOMAIN Boundary_dict :
              \/ Boundary_dict[i][1] \in ForcedKeys
              \/ \E it \in request :
                    /\ it.kind = "number"
                    /\ Boundary_dict[i] = << it.key, it.num >>
        /\ \A it \in request :
              (it.kind = "number" /\ it.key \in BoundNames \ ForcedKeys)
                  => DictHas(Boundary_dict, it.key, it.num)
        /\ "bineq" \in built =>
              /\ Key(lb, 9) \in ForcedKeys => HasRow(9, -1, 0)
              /\ Key(lb, 27) \in ForcedKeys => HasRow(27, -1, 0)
        /\ Returned =>
              /\ IF Key(lb, 9) \in ForcedKeys
                 THEN result[9] = Solv.x[9]
                 ELSE RatioDen * result[9] = (-100) * Substrates[13]
              /\ IF Key(lb, 27) \in ForcedKeys
                 THEN result[27] = Solv.x[27]
                 ELSE RatioDen * result[27] = (-100) * Substrates[10]
              /\ (Solv.status = "optimal" /\ Key(lb, 9) \in ForcedKeys)
                    => result[9] >= 0

\* acetate 0 and lactate not: the submitted lb9 = 50 was replaced by 0 and the
\* QP lifted a negative prediction of flux 9 to it, while the submitted lb27
\* went through and flux 27 got the override
C13_Witness ==
    /\ FromBoundaries
    /\ Returned
    /\ Solv.status = "optimal"
    /\ Substrates[Substrate2Index.acetate] = 0
    /\ Substrates[Substrate2Index.lactate] # 0
    /\ Field(Key(lb, 9), "number", 50) \in request
    /\ Field(Key(lb, 27), "number", -60) \in request
    /\ DictHas(Boundary_dict, Key(lb, 27), -60)
    /\ Fluxes[9] < 0
    /\ result[9] = 0
    /\ result[27] < 0

====
